---- MODULE Spec2Model ----
(***************************************************************************)
(* usb-parse: decoder of USB 2.0 low/full speed packets from a sampled     *)
(* D+/D- trace (src/usb-parse.py).                                         *)
(*                                                                         *)
(* Time is counted in ticks; one full-speed bit period (1/12e6 s) is       *)
(* FSTicks ticks and one low-speed bit period (1/1.5e6 s) is 8 times that. *)
(* Voltages are counted in tenths of a volt.                               *)
(* An optional value (Python None or a value) is a sequence of length at   *)
(* most one.                                                               *)
(***************************************************************************)
EXTENDS Integers, Sequences, FiniteSets, TLC

VARIABLES
    options_speed,  \* the --speed option: "auto", "low" or "full"
    scn,            \* the capture: what the line carries and how it is sampled
    rownum,         \* number of rows of the capture that are behind the loop
    glitched,       \* TRUE once the capture has departed from the nominal one
    state, se0_cnt, full_speed, period, sample, data,
    prev_tm, prev_dp, prev_dm,
    stdout,         \* the lines printed so far (the arguments of each print)
    raised,         \* name of the exception that ended the program, or ""
    ev              \* what the last loop iteration did (observation only)

vars == <<options_speed, scn, rownum, glitched, state, se0_cnt,
          full_speed, period, sample, data, prev_tm, prev_dp, prev_dm,
          stdout, raised, ev>>

None == <<>>
Some(x) == <<x>>

----------------------------------------------------------------------------
(* Python integer operators on naturals *)

RECURSIVE BitAnd(_, _)
BitAnd(a, b) ==
    IF a = 0 \/ b = 0 THEN 0
    ELSE (a % 2) * (b % 2) + 2 * BitAnd(a \div 2, b \div 2)

RECURSIVE BitOr(_, _)
BitOr(a, b) ==
    IF a = 0 THEN b
    ELSE IF b = 0 THEN a
    ELSE (IF a % 2 = 1 \/ b % 2 = 1 THEN 1 ELSE 0) + 2 * BitOr(a \div 2, b \div 2)

RECURSIVE BitXor(_, _)
BitXor(a, b) ==
    IF a = 0 THEN b
    ELSE IF b = 0 THEN a
    ELSE ((a + b) % 2) + 2 * BitXor(a \div 2, b \div 2)

Shl(a, k) == a * 2^k
Shr(a, k) == a \div 2^k

\* list[lo:hi] with non-negative lo and a possibly negative hi
Slice(s, lo, hi) ==
    LET h == IF hi < 0 THEN (IF Len(s) + hi < 0 THEN 0 ELSE Len(s) + hi)
             ELSE (IF hi > Len(s) THEN Len(s) ELSE hi)
    IN  IF lo >= h THEN <<>> ELSE SubSeq(s, lo + 1, h)

----------------------------------------------------------------------------
(* Constants of the program *)

FSTicks == 9

usb_period(is_full_speed) ==
    IF is_full_speed THEN FSTicks ELSE 8 * FSTicks

Threshold == 12

FS_SYNC == 42
LS_SYNC == 213

PID_OUT   == 225
PID_IN    == 105
PID_SOF   == 165
PID_SETUP == 45
PID_DATA0 == 195
PID_DATA1 == 75
PID_ACK   == 210
PID_NAK   == 90
PID_STALL == 30
PID_PRE   == 60

LOW  == -1
HIGH == 1

UNKNOWN     == 0
IDLE        == 1
DETECT_SYNC == 2
RECEIVE     == 3
GOT_SE1     == 4
GOT_EOP     == 5

----------------------------------------------------------------------------
(* CRC5 *)

crc5_tbl ==
    << 0, 11, 22, 29,  5, 14, 19, 24, 10,  1,
      28, 23, 15,  4, 25, 18, 20, 31,  2,  9,
      17, 26,  7, 12, 30, 21,  8,  3, 27, 16,
      13,  6 >>

\* usb_crc5, but the input is not complemented first
usb_crc5_noinit(n) ==
    LET lsb == BitAnd(Shr(n, 1), 31)
        msb == BitAnd(Shr(n, 6), 31)
        c0  == IF BitAnd(n, 1) # 0 THEN 20 ELSE 0
        c1  == crc5_tbl[BitXor(lsb, c0) + 1]
        c2  == crc5_tbl[BitXor(msb, c1) + 1]
    IN  BitXor(c2, 31)

usb_crc5(n) ==
    LET d   == BitXor(n, 31)
        lsb == BitAnd(Shr(d, 1), 31)
        msb == BitAnd(Shr(d, 6), 31)
        c0  == IF BitAnd(d, 1) # 0 THEN 20 ELSE 0
        c1  == crc5_tbl[BitXor(lsb, c0) + 1]
        c2  == crc5_tbl[BitXor(msb, c1) + 1]
    IN  BitXor(c2, 31)

----------------------------------------------------------------------------
(* CRC16 *)

crc16_tbl ==
    <<
          0, 49345, 49537,   320, 49921,   960,   640, 49729,
      50689,  1728,  1920, 51009,  1280, 50625, 50305,  1088,
      52225,  3264,  3456, 52545,  3840, 53185, 52865,  3648,
       2560, 51905, 52097,  2880, 51457,  2496,  2176, 51265,
      55297,  6336,  6528, 55617,  6912, 56257, 55937,  6720,
       7680, 57025, 57217,  8000, 56577,  7616,  7296, 56385,
       5120, 54465, 54657,  5440, 55041,  6080,  5760, 54849,
      53761,  4800,  4992, 54081,  4352, 53697, 53377,  4160,
      61441, 12480, 12672, 61761, 13056, 62401, 62081, 12864,
      13824, 63169, 63361, 14144, 62721, 13760, 13440, 62529,
      15360, 64705, 64897, 15680, 65281, 16320, 16000, 65089,
      64001, 15040, 15232, 64321, 14592, 63937, 63617, 14400,
      10240, 59585, 59777, 10560, 60161, 11200, 10880, 59969,
      60929, 11968, 12160, 61249, 11520, 60865, 60545, 11328,
      58369,  9408,  9600, 58689,  9984, 59329, 59009,  9792,
       8704, 58049, 58241,  9024, 57601,  8640,  8320, 57409,
      40961, 24768, 24960, 41281, 25344, 41921, 41601, 25152,
      26112, 42689, 42881, 26432, 42241, 26048, 25728, 42049,
      27648, 44225, 44417, 27968, 44801, 28608, 28288, 44609,
      43521, 27328, 27520, 43841, 26880, 43457, 43137, 26688,
      30720, 47297, 47489, 31040, 47873, 31680, 31360, 47681,
      48641, 32448, 32640, 48961, 32000, 48577, 48257, 31808,
      46081, 29888, 30080, 46401, 30464, 47041, 46721, 30272,
      29184, 45761, 45953, 29504, 45313, 29120, 28800, 45121,
      20480, 37057, 37249, 20800, 37633, 21440, 21120, 37441,
      38401, 22208, 22400, 38721, 21760, 38337, 38017, 21568,
      39937, 23744, 23936, 40257, 24320, 40897, 40577, 24128,
      23040, 39617, 39809, 23360, 39169, 22976, 22656, 38977,
      34817, 18624, 18816, 35137, 19200, 35777, 35457, 19008,
      19968, 36545, 36737, 20288, 36097, 19904, 19584, 35905,
      17408, 33985, 34177, 17728, 34561, 18368, 18048, 34369,
      33281, 17088, 17280, 33601, 16640, 33217, 32897, 16448 >>

RECURSIVE usb_crc16_loop(_, _)
usb_crc16_loop(crc, bytes) ==
    IF bytes = <<>> THEN crc
    ELSE usb_crc16_loop(
             BitXor(Shr(crc, 8), crc16_tbl[BitAnd(BitXor(crc, Head(bytes)), 255) + 1]),
             Tail(bytes))

\* usb_crc16, but the register is not complemented at the end
usb_crc16_nocompl(bytes) == usb_crc16_loop(65535, bytes)

usb_crc16(bytes) == BitXor(usb_crc16_loop(65535, bytes), 65535)

----------------------------------------------------------------------------
(* Data classes *)

dpdm_sample(next_tm) == [dp |-> 0, dm |-> 0, next_tm |-> next_tm]

dpdm_byte == [nr_bits |-> 0, b |-> 0]

dpdm_data == [byte |-> dpdm_byte, prev_bit |-> None, bytes_arr |-> <<>>]

\* Python truth value of full_speed (None and False are both false)
Truthy(fs) == fs = Some(TRUE)

\* One printed line: the label and the arguments given to print
Line(label, a, b, crc, ok, data0, bytes) ==
    [label |-> label, a |-> a, b |-> b, crc |-> crc, ok |-> ok,
     data0 |-> data0, bytes |-> bytes]

\* The samples counted into a window: how many, and how many of them HIGH
NoSamples == [n |-> 0, hi_dp |-> 0, hi_dm |-> 0]

\* The observation of a loop iteration that did nothing.  The fields of the
\* first three lines tell what the iteration did.  The others are the
\* history of the current packet attempt and are carried from one iteration
\* to the next: se0_run counts the SE0 windows resolved last and in a row,
\* t0 is the time of the edge, k the number of windows opened, raws and bits
\* are the raw and the decoded bit of every window forwarded to the bit
\* decoder, acc the samples counted into the open window.
NoEvent ==
    [edge |-> FALSE, closed |-> FALSE, dp |-> 0, dm |-> 0,
     sum_dp |-> 0, sum_dm |-> 0, got |-> 0, win |-> NoSamples, win_end |-> 0,
     fwd |-> FALSE, raw_bit |-> 0, bit |-> 0, opened |-> FALSE,
     printed |-> FALSE, bytes |-> <<>>, sync |-> None, run_before |-> 0,
     se0_run |-> 0, t0 |-> 0, k |-> 0, raws |-> <<>>, bits |-> <<>>,
     acc |-> NoSamples]

\* What an iteration starts from: nothing done, the history of the attempt
Carried(e) ==
    [NoEvent EXCEPT !.se0_run = e.se0_run, !.t0 = e.t0, !.k = e.k,
                    !.raws = e.raws, !.bits = e.bits, !.acc = e.acc]

\* One more sample of levels dp_v, dm_v
Counted(acc, dp_v, dm_v) ==
    [n |-> acc.n + 1,
     hi_dp |-> acc.hi_dp + (IF dp_v = HIGH THEN 1 ELSE 0),
     hi_dm |-> acc.hi_dm + (IF dm_v = HIGH THEN 1 ELSE 0)]

----------------------------------------------------------------------------
(* The body of the decode loop.  Each stage maps the record s of the       *)
(* program's variables before the stage to the record after it.            *)

\* To logical levels
ToLevel(v) == IF v < Threshold THEN LOW ELSE HIGH

\* Detect full/low speed, but on every differential sample
DetectSpeed_always(s, dp_v, dm_v) ==
    IF dp_v # dm_v
    THEN [s EXCEPT !.full_speed = Some(dp_v = HIGH)]
    ELSE s

\* Detect full/low speed
DetectSpeed(s, dp_v, dm_v) ==
    IF s.full_speed = None /\ dp_v # dm_v
    THEN [s EXCEPT !.full_speed = Some(dp_v = HIGH)]
    ELSE s

\* Detect required number of samples per USB period
DetectPeriod(s, ptm) ==
    IF s.full_speed # None /\ s.period = None /\ ptm # None
    THEN [s EXCEPT !.period = Some(usb_period(s.full_speed[1])),
                   !.state = IDLE]
    ELSE s

\* Detect SYNC: the edge that starts a packet attempt
DetectEdge(s, tm_v, dp_v, dm_v, pdp, pdm) ==
    IF s.state = IDLE /\ (pdp # Some(dp_v) \/ pdm # Some(dm_v))
    THEN [s EXCEPT !.state = DETECT_SYNC,
                   !.sample = Some(dpdm_sample(tm_v + s.period[1])),
                   !.data = Some(dpdm_data),
                   !.ev.edge = TRUE, !.ev.se0_run = 0, !.ev.t0 = tm_v,
                   !.ev.k = 1, !.ev.raws = <<>>, !.ev.bits = <<>>,
                   !.ev.acc = NoSamples]
    ELSE s

\* Detect EOP or SE1, but any differential window after 2x SE0 is an EOP
DetectEOP_anypolarity(s, dp, dm, tm_v) ==
    IF dp # dm
    THEN LET s1 == IF s.se0_cnt >= 2 THEN [s EXCEPT !.state = GOT_EOP] ELSE s
         IN  [s1 EXCEPT !.se0_cnt = 0]
    ELSE IF dp = 0 /\ dm = 0
    THEN [s EXCEPT !.se0_cnt = @ + 1]
    ELSE [s EXCEPT !.stdout = Append(@, Line("Warning", tm_v, 0, 0, "", <<>>, <<>>)),
                   !.state = GOT_SE1]

\* Detect EOP or SE1
DetectEOP(s, dp, dm, tm_v) ==
    IF dp # dm
    THEN LET s1 == IF s.se0_cnt >= 2
                   THEN IF Truthy(s.full_speed) /\ dp > dm
                        THEN [s EXCEPT !.state = GOT_EOP]
                        ELSE IF ~Truthy(s.full_speed) /\ dp < dm
                        THEN [s EXCEPT !.state = GOT_EOP]
                        ELSE s
                   ELSE s
         IN  [s1 EXCEPT !.se0_cnt = 0]
    ELSE IF dp = 0 /\ dm = 0
    THEN [s EXCEPT !.se0_cnt = @ + 1]
    ELSE [s EXCEPT !.stdout = Append(@, Line("Warning", tm_v, 0, 0, "", <<>>, <<>>)),
                   !.state = GOT_SE1]

\* Decode a bit, but the raw bit of the window is not kept for the next one
DecodeBit_stale(s, dp, dm) ==
    LET d       == s.data[1]
        raw_bit == IF dp > dm THEN 1 ELSE 0
        bit     == IF d.prev_bit # None
                   THEN (IF d.prev_bit = Some(raw_bit) THEN 1 ELSE 0)
                   ELSE raw_bit
        d2      == [d EXCEPT !.byte = [nr_bits |-> d.byte.nr_bits + 1,
                                       b |-> BitOr(d.byte.b, Shl(bit, d.byte.nr_bits))]]
        d3      == IF d2.byte.nr_bits = 8
                   THEN [d2 EXCEPT !.prev_bit = IF s.state = DETECT_SYNC
                                                THEN Some(raw_bit) ELSE @,
                                   !.bytes_arr = Append(@, d2.byte.b),
                                   !.byte = dpdm_byte]
                   ELSE d2
    IN  [s EXCEPT !.data = Some(d3),
                  !.ev.fwd = TRUE, !.ev.raw_bit = raw_bit, !.ev.bit = bit,
                  !.ev.raws = Append(@, raw_bit), !.ev.bits = Append(@, bit)]

\* Decode a bit, but the last bit of SYNC is not kept for NRZI decoding
DecodeBit_noseed(s, dp, dm) ==
    LET d       == s.data[1]
        raw_bit == IF dp > dm THEN 1 ELSE 0
        bit     == IF d.prev_bit # None
                   THEN (IF d.prev_bit = Some(raw_bit) THEN 1 ELSE 0)
                   ELSE raw_bit
        d1      == IF d.prev_bit # None
                   THEN [d EXCEPT !.prev_bit = Some(raw_bit)]
                   ELSE d
        d2      == [d1 EXCEPT !.byte = [nr_bits |-> d1.byte.nr_bits + 1,
                                        b |-> BitOr(d1.byte.b, Shl(bit, d1.byte.nr_bits))]]
        d3      == IF d2.byte.nr_bits = 8
                   THEN [d2 EXCEPT !.bytes_arr = Append(@, d2.byte.b),
                                   !.byte = dpdm_byte]
                   ELSE d2
    IN  [s EXCEPT !.data = Some(d3),
                  !.ev.fwd = TRUE, !.ev.raw_bit = raw_bit, !.ev.bit = bit,
                  !.ev.raws = Append(@, raw_bit), !.ev.bits = Append(@, bit)]

\* Decode a bit, but the first bit of a byte is its most significant one
DecodeBit_msbfirst(s, dp, dm) ==
    LET d       == s.data[1]
        raw_bit == IF dp > dm THEN 1 ELSE 0
        bit     == IF d.prev_bit # None
                   THEN (IF d.prev_bit = Some(raw_bit) THEN 1 ELSE 0)
                   ELSE raw_bit
        d1      == IF d.prev_bit # None
                   THEN [d EXCEPT !.prev_bit = Some(raw_bit)]
                   ELSE d
        d2      == [d1 EXCEPT !.byte = [nr_bits |-> d1.byte.nr_bits + 1,
                                        b |-> BitOr(d1.byte.b, Shl(bit, 7 - d1.byte.nr_bits))]]
        d3      == IF d2.byte.nr_bits = 8
                   THEN [d2 EXCEPT !.prev_bit = IF s.state = DETECT_SYNC
                                                THEN Some(raw_bit) ELSE @,
                                   !.bytes_arr = Append(@, d2.byte.b),
                                   !.byte = dpdm_byte]
                   ELSE d2
    IN  [s EXCEPT !.data = Some(d3),
                  !.ev.fwd = TRUE, !.ev.raw_bit = raw_bit, !.ev.bit = bit,
                  !.ev.raws = Append(@, raw_bit), !.ev.bits = Append(@, bit)]

\* Decode a bit
DecodeBit(s, dp, dm) ==
    LET d       == s.data[1]
        raw_bit == IF dp > dm THEN 1 ELSE 0
        bit     == IF d.prev_bit # None
                   THEN (IF d.prev_bit = Some(raw_bit) THEN 1 ELSE 0)
                   ELSE raw_bit
        d1      == IF d.prev_bit # None
                   THEN [d EXCEPT !.prev_bit = Some(raw_bit)]
                   ELSE d
        d2      == [d1 EXCEPT !.byte = [nr_bits |-> d1.byte.nr_bits + 1,
                                        b |-> BitOr(d1.byte.b, Shl(bit, d1.byte.nr_bits))]]
        d3      == IF d2.byte.nr_bits = 8
                   THEN [d2 EXCEPT !.prev_bit = IF s.state = DETECT_SYNC
                                                THEN Some(raw_bit) ELSE @,
                                   !.bytes_arr = Append(@, d2.byte.b),
                                   !.byte = dpdm_byte]
                   ELSE d2
    IN  [s EXCEPT !.data = Some(d3),
                  !.ev.fwd = TRUE, !.ev.raw_bit = raw_bit, !.ev.bit = bit,
                  !.ev.raws = Append(@, raw_bit), !.ev.bits = Append(@, bit)]

\* The next window follows the schedule of the closed one
NextWindow(s) ==
    [s EXCEPT !.sample = Some(dpdm_sample(s.sample[1].next_tm + s.period[1])),
              !.ev.opened = TRUE, !.ev.k = @ + 1, !.ev.acc = NoSamples]

\* SE1 or EOP, but the state is left as it is after an SE1
DropWindow_nostate(s) ==
    LET s1 == [s EXCEPT !.sample = None]
    IN  IF s1.state = GOT_SE1
        THEN [s1 EXCEPT !.data = None]
        ELSE s1

\* SE1 or EOP, but the buffer is kept after an SE1
DropWindow_keepdata(s) ==
    LET s1 == [s EXCEPT !.sample = None]
    IN  IF s1.state = GOT_SE1
        THEN [s1 EXCEPT !.state = IDLE]
        ELSE s1

\* SE1 or EOP
DropWindow(s) ==
    LET s1 == [s EXCEPT !.sample = None]
    IN  IF s1.state = GOT_SE1
        THEN [s1 EXCEPT !.data = None, !.state = IDLE]
        ELSE s1

\* The resolved bit of a line, but a tie resolves to 1
Majority_tiehigh(sum) == IF sum >= 0 THEN 1 ELSE 0

\* The resolved bit of a line from the sum of its levels in the window
Majority(sum) == IF sum > 0 THEN 1 ELSE 0

\* CloseWindow, but the next window is scheduled from the closing sample
CloseWindow_resync(s, tm_v) ==
    LET w  == s.sample[1]
        dp == Majority(w.dp)
        dm == Majority(w.dm)
        s0 == [s EXCEPT !.ev.closed = TRUE, !.ev.dp = dp, !.ev.dm = dm,
                        !.ev.sum_dp = w.dp, !.ev.sum_dm = w.dm,
                        !.ev.win = s.ev.acc, !.ev.win_end = w.next_tm,
                        !.ev.run_before = s.ev.se0_run,
                        !.ev.se0_run = IF dp = 0 /\ dm = 0 THEN @ + 1 ELSE 0]
        s1 == DetectEOP(s0, dp, dm, tm_v)
        s2 == [s1 EXCEPT !.ev.got = IF s1.state \in {GOT_SE1, GOT_EOP}
                                    THEN s1.state ELSE 0]
    IN  IF s2.state = GOT_SE1 \/ s2.state = GOT_EOP
        THEN DropWindow(s2)
        ELSE [NextWindow(DecodeBit(s2, dp, dm)) EXCEPT
                 !.sample = Some(dpdm_sample(tm_v + s.period[1]))]

\* The window is over: resolve it by majority and act on the bit pair
CloseWindow(s, tm_v) ==
    LET w  == s.sample[1]
        dp == Majority(w.dp)
        dm == Majority(w.dm)
        s0 == [s EXCEPT !.ev.closed = TRUE, !.ev.dp = dp, !.ev.dm = dm,
                        !.ev.sum_dp = w.dp, !.ev.sum_dm = w.dm,
                        !.ev.win = s.ev.acc, !.ev.win_end = w.next_tm,
                        !.ev.run_before = s.ev.se0_run,
                        !.ev.se0_run = IF dp = 0 /\ dm = 0 THEN @ + 1 ELSE 0]
        s1 == DetectEOP(s0, dp, dm, tm_v)
        s2 == [s1 EXCEPT !.ev.got = IF s1.state \in {GOT_SE1, GOT_EOP}
                                    THEN s1.state ELSE 0]
    IN  IF s2.state = GOT_SE1 \/ s2.state = GOT_EOP
        THEN DropWindow(s2)
        ELSE NextWindow(DecodeBit(s2, dp, dm))

\* Oversampling, but a sample at or after the end of the window closes the
\* window first and is counted into the next one
Oversample_closefirst(s, tm_v, dp_v, dm_v) ==
    IF s.sample = None
    THEN s
    ELSE LET s1 == IF tm_v >= s.sample[1].next_tm THEN CloseWindow(s, tm_v) ELSE s
         IN  IF s1.sample = None
             THEN s1
             ELSE [s1 EXCEPT !.sample = Some([s1.sample[1] EXCEPT !.dp = @ + dp_v,
                                                                  !.dm = @ + dm_v]),
                             !.ev.acc = Counted(@, dp_v, dm_v)]

\* Oversampling and decoding
Oversample(s, tm_v, dp_v, dm_v) ==
    IF s.sample = None
    THEN s
    ELSE LET w  == s.sample[1]
             s1 == [s EXCEPT !.sample = Some([w EXCEPT !.dp = @ + dp_v,
                                                       !.dm = @ + dm_v]),
                             !.ev.acc = Counted(@, dp_v, dm_v)]
         IN  IF tm_v >= w.next_tm THEN CloseWindow(s1, tm_v) ELSE s1

\* Detect SYNC, but the full-speed pattern is expected at either speed
DetectSync_fsonly(s0) ==
    IF s0.state = DETECT_SYNC /\ Len(s0.data[1].bytes_arr) = 1
    THEN LET sync == s0.data[1].bytes_arr[1]
             s    == [s0 EXCEPT !.ev.sync = Some(sync)]
         IN  IF sync = FS_SYNC
             THEN [s EXCEPT !.data = Some([s.data[1] EXCEPT !.byte = dpdm_byte]),
                            !.state = RECEIVE]
             ELSE [s EXCEPT !.state = IDLE, !.sample = None, !.data = None]
    ELSE s0

\* Detect SYNC: the first byte of the attempt
DetectSync(s0) ==
    IF s0.state = DETECT_SYNC /\ Len(s0.data[1].bytes_arr) = 1
    THEN LET sync == s0.data[1].bytes_arr[1]
             s    == [s0 EXCEPT !.ev.sync = Some(sync)]
         IN  IF Truthy(s.full_speed) /\ sync = FS_SYNC
             THEN [s EXCEPT !.data = Some([s.data[1] EXCEPT !.byte = dpdm_byte]),
                            !.state = RECEIVE]
             ELSE IF ~Truthy(s.full_speed) /\ sync = LS_SYNC
             THEN [s EXCEPT !.data = Some([s.data[1] EXCEPT !.byte = dpdm_byte]),
                            !.state = RECEIVE]
             ELSE [s EXCEPT !.state = IDLE, !.sample = None, !.data = None]
    ELSE s0

----------------------------------------------------------------------------
(* We have a full packet: field extraction and printing.                   *)
(* A decoder yields [exc, line]: the exception it raised ("" if none) and   *)
(* the line it printed.                                                     *)

At(bytes, i) == bytes[i + 1]                  \* bytes[i], i >= 0
AtEnd(bytes, k) == bytes[Len(bytes) - k + 1]  \* bytes[-k], k >= 1

Printed(line) == [exc |-> "", line |-> line]
IndexError == [exc |-> "IndexError", line |-> Line("", 0, 0, 0, "", <<>>, <<>>)]

Verdict(ok) == IF ok THEN "OK" ELSE "ERR"

\* DecodeSOF, but the frame number takes two bits of bytes[3] only
DecodeSOF_mask(bytes) ==
    IF Len(bytes) < 4
    THEN IndexError
    ELSE LET nr_frame == BitOr(Shl(BitAnd(At(bytes, 3), 3), 8), At(bytes, 2))
             crc      == BitAnd(Shr(At(bytes, 3), 3), 31)
         IN  Printed(Line("SOF", nr_frame, 0, crc,
                          Verdict(usb_crc5(nr_frame) = crc), <<>>, bytes))

DecodeSOF(bytes) ==
    IF Len(bytes) < 4
    THEN IndexError
    ELSE LET nr_frame == BitOr(Shl(BitAnd(At(bytes, 3), 7), 8), At(bytes, 2))
             crc      == BitAnd(Shr(At(bytes, 3), 3), 31)
         IN  Printed(Line("SOF", nr_frame, 0, crc,
                          Verdict(usb_crc5(nr_frame) = crc), <<>>, bytes))

\* DecodeToken, but the endpoint misses the bit that bytes[2] carries
DecodeToken_endphigh(bytes) ==
    IF Len(bytes) < 4
    THEN IndexError
    ELSE LET pid      == IF At(bytes, 1) = PID_SETUP THEN "SETUP" ELSE "IN"
             addrendp == BitOr(Shl(BitAnd(At(bytes, 3), 7), 8), At(bytes, 2))
             addr     == BitAnd(At(bytes, 2), 127)
             endp     == Shl(BitAnd(At(bytes, 3), 7), 1)
             crc      == BitAnd(Shr(At(bytes, 3), 3), 31)
         IN  Printed(Line(pid, addr, endp, crc,
                          Verdict(usb_crc5(addrendp) = crc), <<>>, bytes))

DecodeToken(bytes) ==
    IF Len(bytes) < 4
    THEN IndexError
    ELSE LET pid      == IF At(bytes, 1) = PID_SETUP THEN "SETUP" ELSE "IN"
             addrendp == BitOr(Shl(BitAnd(At(bytes, 3), 7), 8), At(bytes, 2))
             addr     == BitAnd(At(bytes, 2), 127)
             endp     == BitOr(Shl(BitAnd(At(bytes, 3), 7), 1),
                               Shr(BitAnd(At(bytes, 2), 128), 7))
             crc      == BitAnd(Shr(At(bytes, 3), 3), 31)
         IN  Printed(Line(pid, addr, endp, crc,
                          Verdict(usb_crc5(addrendp) = crc), <<>>, bytes))

DecodeDATA0(bytes) ==
    LET crc   == BitOr(Shl(AtEnd(bytes, 1), 8), AtEnd(bytes, 2))
        data0 == Slice(bytes, 2, -2)
    IN  Printed(Line("DATA0", 0, 0, crc,
                     Verdict(usb_crc16(Slice(bytes, 2, -2)) = crc), data0, bytes))

\* The dispatch on the PID byte
Classify(bytes) ==
    IF At(bytes, 1) = PID_SOF THEN DecodeSOF(bytes)
    ELSE IF At(bytes, 1) = PID_SETUP \/ At(bytes, 1) = PID_IN THEN DecodeToken(bytes)
    ELSE IF At(bytes, 1) = PID_DATA0 THEN DecodeDATA0(bytes)
    ELSE IF At(bytes, 1) = PID_ACK THEN Printed(Line("ACK", 0, 0, 0, "", <<>>, bytes))
    ELSE IF At(bytes, 1) = PID_STALL THEN Printed(Line("STALL", 0, 0, 0, "", <<>>, bytes))
    ELSE Printed(Line("", 0, 0, 0, "", <<>>, bytes))

\* FullPacket, but a packet that fails its CRC check is not cleared
FullPacket_errkept(s) ==
    IF s.state = GOT_EOP
    THEN LET bytes == s.data[1].bytes_arr
             r     == Classify(bytes)
         IN  IF Len(bytes) > 1 /\ r.exc # ""
             THEN [s EXCEPT !.raised = r.exc, !.ev.bytes = bytes]
             ELSE IF Len(bytes) > 1 /\ r.line.ok = "ERR"
             THEN [s EXCEPT !.ev.bytes = bytes,
                            !.stdout = Append(@, r.line),
                            !.ev.printed = TRUE,
                            !.state = IDLE]
             ELSE [s EXCEPT !.ev.bytes = bytes,
                            !.stdout = IF Len(bytes) > 1 THEN Append(@, r.line) ELSE @,
                            !.ev.printed = Len(bytes) > 1,
                            !.state = IDLE, !.sample = None, !.data = None]
    ELSE s

FullPacket(s) ==
    IF s.state = GOT_EOP
    THEN LET bytes == s.data[1].bytes_arr
             r     == Classify(bytes)
         IN  IF Len(bytes) > 1 /\ r.exc # ""
             THEN [s EXCEPT !.raised = r.exc, !.ev.bytes = bytes]
             ELSE [s EXCEPT !.ev.bytes = bytes,
                            !.stdout = IF Len(bytes) > 1 THEN Append(@, r.line) ELSE @,
                            !.ev.printed = Len(bytes) > 1,
                            !.state = IDLE, !.sample = None, !.data = None]
    ELSE s

\* One iteration of the for loop on the row (tm, dp, dm)
LoopBody(row) ==
    LET tm_v == row.tm
        dp_v == ToLevel(row.dp)
        dm_v == ToLevel(row.dm)
        s0   == [state |-> state, se0_cnt |-> se0_cnt, full_speed |-> full_speed,
                 period |-> period, sample |-> sample, data |-> data,
                 stdout |-> stdout, raised |-> raised,
                 ev |-> Carried(ev)]
        s1   == DetectSpeed(s0, dp_v, dm_v)
        s2   == DetectPeriod(s1, prev_tm)
        s3   == DetectEdge(s2, tm_v, dp_v, dm_v, prev_dp, prev_dm)
        s4   == Oversample(s3, tm_v, dp_v, dm_v)
        s5   == DetectSync(s4)
        s6   == FullPacket(s5)
    IN  /\ state' = s6.state
        /\ se0_cnt' = s6.se0_cnt
        /\ full_speed' = s6.full_speed
        /\ period' = s6.period
        /\ sample' = s6.sample
        /\ data' = s6.data
        /\ stdout' = s6.stdout
        /\ raised' = s6.raised
        /\ ev' = s6.ev
        /\ IF s6.raised = ""
           THEN /\ prev_tm' = Some(tm_v)
                /\ prev_dp' = Some(dp_v)
                /\ prev_dm' = Some(dm_v)
           ELSE UNCHANGED <<prev_tm, prev_dp, prev_dm>>

----------------------------------------------------------------------------
(* The captures.  A capture is a line that idles in J, carries one frame    *)
(* of line states (one per bit time of the sender) and idles again,         *)
(* sampled every step ticks (8 times that for a low-speed sender); the      *)
(* first sample of the frame falls phase ticks after the frame began, and   *)
(* the line idles for trail bit times after the frame.                      *)

MinStep   == 2    \* ticks between samples (full-speed sender)
MaxStep   == 3
MaxIdle   == 2    \* samples of idle line before the frame
TrailBits == 3    \* bit times of idle line after the frame
MaxGap    == 4    \* most rows missing in a row from a capture

Volt(level) == IF level = HIGH THEN 33 ELSE 0

SymLevels(sym, wire_full) ==
    IF sym = "SE0" THEN <<LOW, LOW>>
    ELSE IF sym = "SE1" THEN <<HIGH, HIGH>>
    ELSE IF (sym = "J") = wire_full THEN <<HIGH, LOW>>
    ELSE <<LOW, HIGH>>

BitsOf(byte) == [i \in 1..8 |-> (byte \div 2^(i - 1)) % 2]

RECURSIVE BitsOfAll(_)
BitsOfAll(bytes) ==
    IF bytes = <<>> THEN <<>> ELSE BitsOf(Head(bytes)) \o BitsOfAll(Tail(bytes))

Toggle(sym) == IF sym = "J" THEN "K" ELSE "J"

\* NRZI: a 0 bit is a transition, a 1 bit is none
RECURSIVE NrziEncode(_, _)
NrziEncode(bits, cur) ==
    IF bits = <<>> THEN <<>>
    ELSE LET nxt == IF Head(bits) = 0 THEN Toggle(cur) ELSE cur
         IN  <<nxt>> \o NrziEncode(Tail(bits), nxt)

\* SYNC is KJKJKJKK; the bytes follow, NRZI encoded, then the tail
SyncSyms == NrziEncode(BitsOf(128), "J")
EOPSyms  == <<"SE0", "SE0", "J">>
Frame(bytes, tail) == SyncSyms \o NrziEncode(BitsOfAll(bytes), "K") \o tail

AckFrame == Frame(<<PID_ACK>>, EOPSyms)

Frames ==
    { AckFrame,
      Frame(<<PID_SOF>>, EOPSyms),
      Frame(<<>>, EOPSyms),
      Frame(<<PID_NAK>>, <<"SE0", "SE0", "K", "J", "SE0", "SE0", "J">>),
      <<"K", "J", "SE1", "K", "SE0", "SE0", "J">> }

Capture(hint, wire, step, phase, idle, frame, trail) ==
    [hint |-> hint, wire |-> wire, step |-> step, phase |-> phase,
     idle |-> idle, frame |-> frame, trail |-> trail]

Scenarios ==
    { Capture("auto", TRUE, st, ph, id, fr, TrailBits) :
        st \in MinStep..MaxStep, ph \in {0, 1}, id \in 2..MaxIdle, fr \in Frames }
    \cup
    { Capture(h, w, st, 0, 2, AckFrame, TrailBits) :
        h \in {"low", "full", "auto"}, w \in BOOLEAN, st \in {MaxStep} }

StepTicks(c) == IF c.wire THEN c.step ELSE 8 * c.step
PhaseTicks(c) == IF c.wire THEN c.phase ELSE 8 * c.phase

NumRows(c) ==
    c.idle + ((Len(c.frame) + c.trail) * usb_period(c.wire)) \div StepTicks(c)

\* The k-th row of the capture, k >= 1
RowAt(c, k) ==
    LET t   == (k - 1 - c.idle) * StepTicks(c) + PhaseTicks(c)
        i   == t \div usb_period(c.wire)
        sym == IF k <= c.idle \/ i >= Len(c.frame) THEN "J" ELSE c.frame[i + 1]
        lv  == SymLevels(sym, c.wire)
    IN  [tm |-> (k - 1) * StepTicks(c), dp |-> Volt(lv[1]), dm |-> Volt(lv[2])]

----------------------------------------------------------------------------
(* The program *)

SpeedOption(speed) ==
    IF speed = "low" THEN Some(FALSE)
    ELSE IF speed = "full" THEN Some(TRUE)
    ELSE None

Init ==
    /\ scn \in Scenarios
    /\ options_speed = scn.hint
    /\ rownum = 0
    /\ glitched = FALSE
    /\ state = UNKNOWN
    /\ se0_cnt = 0
    /\ full_speed = SpeedOption(options_speed)
    /\ period = None
    /\ sample = None
    /\ data = None
    /\ prev_tm = None
    /\ prev_dp = None
    /\ prev_dm = None
    /\ stdout = <<>>
    /\ raised = ""
    /\ ev = NoEvent

\* The loop reads the next row of the capture
Feed ==
    /\ raised = ""
    /\ rownum < NumRows(scn)
    /\ LoopBody(RowAt(scn, rownum + 1))
    /\ rownum' = rownum + 1
    /\ UNCHANGED <<options_speed, scn, glitched>>

\* The next row carries other levels than the nominal capture (once)
FeedGlitch ==
    /\ raised = ""
    /\ ~glitched
    /\ rownum < NumRows(scn)
    /\ \E vdp \in {Threshold - 1, Threshold}, vdm \in {Threshold - 1, Threshold} :
         LET row == RowAt(scn, rownum + 1)
         IN  /\ <<ToLevel(vdp), ToLevel(vdm)>> # <<ToLevel(row.dp), ToLevel(row.dm)>>
             /\ LoopBody([row EXCEPT !.dp = vdp, !.dm = vdm])
    /\ rownum' = rownum + 1
    /\ glitched' = TRUE
    /\ UNCHANGED <<options_speed, scn>>

\* Rows are missing from the capture before the next one (once)
FeedGap ==
    /\ raised = ""
    /\ ~glitched
    /\ \E k \in 1..MaxGap :
         /\ rownum + k < NumRows(scn)
         /\ LoopBody(RowAt(scn, rownum + k + 1))
         /\ rownum' = rownum + k + 1
    /\ glitched' = TRUE
    /\ UNCHANGED <<options_speed, scn>>

Next == Feed \/ FeedGlitch \/ FeedGap

Spec == Init /\ [][Next]_vars

----------------------------------------------------------------------------
(* The end of a packet.  A packet capture is an undisturbed full-speed      *)
(* capture of SYNC, the bytes of one packet and EOP, with 3 samples per bit *)
(* period, read with --speed full.  InitPacket is the program after the    *)
(* last row before the one that closes the J window of the EOP: the bytes   *)
(* are in the buffer with the two bits that the SE0 windows were decoded    *)
(* to, and the J window holds its first two samples.                        *)

PacketCapture(bytes) ==
    Capture("full", TRUE, FSTicks \div 3, 0, 2, Frame(bytes, EOPSyms), 1)

\* The bytes that the decoder has assembled from the frame of c
FrameBytes(c) ==
    [i \in 1..((Len(c.frame) - 3) \div 8) |->
        IF i = 1 THEN FS_SYNC
        ELSE LET bit(j) == IF c.frame[8 * (i - 1) + j] = c.frame[8 * (i - 1) + j - 1]
                           THEN 1 ELSE 0
             IN  bit(1) + 2 * bit(2) + 4 * bit(3) + 8 * bit(4)
                   + 16 * bit(5) + 32 * bit(6) + 64 * bit(7) + 128 * bit(8)]

\* The end of the J window of the EOP of c
EndOfEOP(c) == c.idle * c.step + Len(c.frame) * usb_period(TRUE)

InitPacket(captures) ==
    /\ scn \in captures
    /\ options_speed = scn.hint
    /\ glitched = FALSE
    /\ stdout = <<>>
    /\ raised = ""
    /\ rownum = scn.idle + 3 * Len(scn.frame)
    /\ state = RECEIVE
    /\ se0_cnt = 2
    /\ full_speed = Some(TRUE)
    /\ period = Some(usb_period(TRUE))
    /\ sample = Some([dp |-> 2, dm |-> -2, next_tm |-> EndOfEOP(scn)])
    /\ data = Some([byte |-> [nr_bits |-> 2,
                              b |-> IF scn.frame[Len(scn.frame) - 3] = "K"
                                    THEN 3 ELSE 2],
                    prev_bit |-> Some(0),
                    bytes_arr |-> FrameBytes(scn)])
    /\ prev_tm = Some(EndOfEOP(scn) - scn.step)
    /\ prev_dp = Some(HIGH)
    /\ prev_dm = Some(LOW)
    /\ ev = [NoEvent EXCEPT
                !.se0_run = 2,
                !.t0 = scn.idle * scn.step,
                !.k = Len(scn.frame),
                !.raws = [i \in 1..(Len(scn.frame) - 1) |->
                            IF scn.frame[i] = "J" THEN 1 ELSE 0],
                !.bits = [i \in 1..(Len(scn.frame) - 1) |->
                            IF i <= 8 THEN (IF scn.frame[i] = "J" THEN 1 ELSE 0)
                            ELSE IF (scn.frame[i] = "J") = (scn.frame[i - 1] = "J")
                                 THEN 1 ELSE 0],
                !.acc = [n |-> 2, hi_dp |-> 2, hi_dm |-> 0]]

NextPacket == Feed

\* SOF packets: every frame number with every CRC5 field
SOFCaptures ==
    { PacketCapture(<<PID_SOF, lo, hi>>) : lo \in 0..255, hi \in 0..255 }

InitSOF == InitPacket(SOFCaptures)

SpecSOF == InitSOF /\ [][NextPacket]_vars

\* SETUP packets with every pair of bytes after the PID, and IN packets
\* with every bytes[3] and some bytes[2]
TokenCaptures ==
    { PacketCapture(<<t[1], t[2], hi>>) :
        t \in ({PID_SETUP} \X (0..255)) \cup ({PID_IN} \X {0, 127, 128, 255}),
        hi \in 0..255 }

InitToken == InitPacket(TokenCaptures)

SpecToken == InitToken /\ [][NextPacket]_vars

\* The bit-at-a-time CRCs, for reference
RECURSIVE Crc5Bits(_, _, _)
Crc5Bits(crc, n, i) ==
    IF i > 10 THEN crc
    ELSE Crc5Bits(IF (crc % 2) # ((n \div 2^i) % 2)
                  THEN BitXor(crc \div 2, 20)
                  ELSE crc \div 2,
                  n, i + 1)

Crc5Ref(n) == 31 - Crc5Bits(31, n, 0)

RECURSIVE Crc16Bits(_, _)
Crc16Bits(crc, k) ==
    IF k = 0 THEN crc
    ELSE Crc16Bits(IF crc % 2 = 1 THEN BitXor(crc \div 2, 40961) ELSE crc \div 2,
                   k - 1)

RECURSIVE Crc16Bytes(_, _)
Crc16Bytes(crc, bytes) ==
    IF bytes = <<>> THEN crc
    ELSE Crc16Bytes(Crc16Bits(BitXor(crc, Head(bytes)), 8), Tail(bytes))

Crc16Ref(bytes) == 65535 - Crc16Bytes(65535, bytes)

\* DATA0 packets: the payloads with a right and with wrong CRC16 fields
MaxPayload == 3

PayloadBytes == {0, 1, 128, 165, 255}

RECURSIVE SeqsOf(_, _)
SeqsOf(S, n) ==
    IF n = 0 THEN {<<>>}
    ELSE {<<b>> \o q : b \in S, q \in SeqsOf(S, n - 1)}

Payloads ==
    {<<>>} \cup {<<b>> : b \in 0..255}
           \cup UNION {SeqsOf(PayloadBytes, n) : n \in 2..MaxPayload}

CrcFields(payload) ==
    LET crc == Crc16Ref(payload)
    IN  {crc, BitXor(crc, 1), BitXor(crc, 32768), 0,
         (crc % 256) * 256 + crc \div 256}

DataCaptures ==
    UNION { { PacketCapture(<<PID_DATA0>> \o pl \o <<f % 256, f \div 256>>) :
                f \in CrcFields(pl) } : pl \in Payloads }

InitData == InitPacket(DataCaptures)

SpecData == InitData /\ [][NextPacket]_vars

\* A packet with a CRC field, right or wrong, followed by an ACK packet:
\* full-speed captures with 3 samples per bit period, the line idles for
\* GapBits bit times between the two packets
GapBits == 3

CrcFieldValues == {0, 1, 682, 2047}

CrcTokens ==
    { <<pid, v % 256, (v \div 256) + 8 * c>> :
        pid \in {PID_SOF, PID_SETUP, PID_IN}, v \in CrcFieldValues, c \in 0..31 }

CrcPayloads == {<<>>, <<0>>, <<165, 1>>}

CrcData ==
    UNION { { <<PID_DATA0>> \o pl \o <<f % 256, f \div 256>> :
                f \in CrcFields(pl) } : pl \in CrcPayloads }

CrcCaptures ==
    { Capture(h, TRUE, FSTicks \div 3, 0, 2,
              Frame(b, EOPSyms) \o [i \in 1..GapBits |-> "J"] \o AckFrame, 1) :
        h \in {"full", "auto"}, b \in CrcTokens \cup CrcData }

InitCrc ==
    /\ scn \in CrcCaptures
    /\ options_speed = scn.hint
    /\ rownum = 0
    /\ glitched = FALSE
    /\ state = UNKNOWN
    /\ se0_cnt = 0
    /\ full_speed = SpeedOption(options_speed)
    /\ period = None
    /\ sample = None
    /\ data = None
    /\ prev_tm = None
    /\ prev_dp = None
    /\ prev_dm = None
    /\ stdout = <<>>
    /\ raised = ""
    /\ ev = NoEvent

SpecCrc == InitCrc /\ [][NextPacket]_vars

----------------------------------------------------------------------------
(* Properties *)

Last(seq) == seq[Len(seq)]

IsWarning(line) == line.label = "Warning"
Packets(out) == SelectSeq(out, LAMBDA l : ~IsWarning(l))
Warnings(out) == SelectSeq(out, LAMBDA l : IsWarning(l))

\* The last loop iteration closed a window that resolved to (dp, dm)
Resolved(dp, dm) == ev.closed /\ ev.dp = dp /\ ev.dm = dm

\* J polarity of a resolved pair at the decoder's speed
IsJ(dp, dm) == IF Truthy(full_speed) THEN dp > dm ELSE dp < dm

\* An undisturbed full-speed capture of an ACK packet with at least 3
\* samples per bit period, decoded with the speed option full or auto
AckCapture ==
    /\ scn.frame = AckFrame
    /\ scn.wire
    /\ scn.idle >= 2
    /\ options_speed \in {"full", "auto"}
    /\ 3 * StepTicks(scn) <= usb_period(TRUE)
    /\ ~glitched

AckLine == Line("ACK", 0, 0, 0, "", <<>>, <<FS_SYNC, PID_ACK>>)

C2_EmitIffEop ==
    [][ (Len(Packets(stdout')) = Len(Packets(stdout)) + 1)
            <=> (ev'.got = GOT_EOP /\ Len(ev'.bytes) > 1) ]_vars

\* C3: when a differential window closes after two consecutive SE0 windows
\* of the attempt, se0_cnt becomes 0; a window of J polarity drives the state
\* to GOT_EOP, a window of K polarity does not: it is decoded as a bit and
\* the next window is opened (and stays, unless that bit completes a first
\* byte that is not SYNC, which ends the attempt in the same iteration).
C3_EopPolarity ==
    (ev.closed /\ ev.run_before >= 2 /\ ev.dp # ev.dm) =>
        /\ se0_cnt = 0
        /\ IF IsJ(ev.dp, ev.dm)
           THEN ev.got = GOT_EOP /\ ~ev.fwd /\ ~ev.opened
           ELSE ev.got = 0 /\ ev.fwd /\ ev.opened
                /\ ev.raw_bit = (IF ev.dp > ev.dm THEN 1 ELSE 0)
                /\ IF sample # None
                   THEN sample[1].dp = 0 /\ sample[1].dm = 0
                        /\ state \in {DETECT_SYNC, RECEIVE}
                   ELSE state = IDLE /\ data = None /\ ~ev.printed

C3_Witness ==
    /\ ev.closed /\ ev.run_before >= 2 /\ ev.dp # ev.dm
    /\ ~IsJ(ev.dp, ev.dm)
    /\ ev.fwd
    /\ state = RECEIVE
    /\ sample # None

\* C4: a loop iteration prints a warning exactly when it closes a window that
\* resolves to dp = 1, dm = 1; the warning is the only line it prints and
\* carries the timestamp of the sample, the window and the buffer are gone,
\* the state is IDLE and the program goes on.
C4_SE1Fault ==
    [][ IF ev'.closed /\ ev'.dp = 1 /\ ev'.dm = 1
        THEN /\ stdout' = Append(stdout, Line("Warning", prev_tm'[1], 0, 0, "", <<>>, <<>>))
             /\ prev_tm'[1] = RowAt(scn', rownum').tm
             /\ sample' = None /\ data' = None /\ state' = IDLE
             /\ raised' = ""
        ELSE Warnings(stdout') = Warnings(stdout) ]_vars

C4_Witness ==
    /\ Resolved(1, 1)
    /\ stdout # <<>> /\ IsWarning(Last(stdout))
    /\ state = IDLE

\* The PIDs whose fields the decoder reads from bytes[2] and bytes[3]
NeedsFourBytes(pid) == pid \in {PID_SOF, PID_SETUP, PID_IN, PID_DATA0}

\* C5: when EOP is reached with more than one byte but fewer than four, and
\* bytes[1] is SOF, SETUP, IN or DATA0, the packet is printed as raw bytes,
\* nothing is raised and the state is IDLE.
C5_MalformedIsRaw ==
    (ev.got = GOT_EOP /\ Len(ev.bytes) > 1 /\ Len(ev.bytes) < 4
        /\ NeedsFourBytes(ev.bytes[2])) =>
        /\ raised = ""
        /\ state = IDLE
        /\ stdout # <<>> /\ Last(stdout) = Line("", 0, 0, 0, "", <<>>, ev.bytes)

\* C9: the speed is the one of the speed option when that is low or full;
\* with auto it is unknown until the first sample whose levels differ, which
\* makes it full speed if D+ is HIGH and low speed if not.  A known speed
\* never changes, and the period is set once, to the period of the speed.
C9_SpeedFixed ==
    /\ full_speed = SpeedOption(options_speed)
    /\ period = None
    /\ [][ /\ full_speed # None => full_speed' = full_speed
           /\ (full_speed = None /\ raised' = "") =>
                 full_speed' = IF prev_dp' # prev_dm'
                               THEN Some(prev_dp' = Some(HIGH))
                               ELSE None
           /\ options_speed # "auto" => full_speed' = SpeedOption(options_speed)
           /\ period # None => period' = period
           /\ period' # None =>
                 /\ full_speed' # None
                 /\ period' = Some(usb_period(full_speed'[1])) ]_vars

C9_Witness ==
    /\ options_speed = "auto"
    /\ full_speed = Some(FALSE)
    /\ period = Some(usb_period(FALSE))
    /\ state = RECEIVE

StandardPIDs ==
    {PID_OUT, PID_IN, PID_SOF, PID_SETUP, PID_DATA0, PID_DATA1,
     PID_ACK, PID_NAK, PID_STALL, PID_PRE}

\* C10: a packet whose PID byte is OUT, DATA1 or NAK is printed with its
\* label and fields like SETUP/IN, DATA0 and ACK/STALL; only a packet whose
\* PID byte is none of the standard PIDs is printed as raw bytes.
C10_PidCoverage ==
    (ev.printed /\ Last(stdout).label = "") =>
        /\ ev.bytes[2] \notin {PID_OUT, PID_DATA1, PID_NAK}
        /\ ev.bytes[2] \notin StandardPIDs

\* C6: for every 11-bit n (the frame number of a printed SOF packet),
\* usb_crc5(n) is the bit-at-a-time CRC5 (register all ones, bit 0 of n
\* first, shifted right with 0x14, complemented) and lies in 0..31; the
\* verdict printed is OK exactly when the CRC5 field is that value.
C6_Crc5Table ==
    (ev.printed /\ Last(stdout).label = "SOF") =>
        LET n == Last(stdout).a
        IN  /\ n \in 0..2047
            /\ usb_crc5(n) = Crc5Ref(n)
            /\ usb_crc5(n) \in 0..31
            /\ (Last(stdout).ok = "OK") = (Last(stdout).crc = Crc5Ref(n))

C6_Witness ==
    /\ ev.printed
    /\ Last(stdout).label = "SOF"
    /\ Last(stdout).a = 2047
    /\ Last(stdout).crc = Crc5Ref(2047)
    /\ Last(stdout).ok = "OK"

\* C7: the bytes [0x2a, 0xa5, n % 256, n \div 256 + 8 * c] reaching EOP are
\* printed as SOF with frame number n and CRC5 field c, with verdict OK if
\* c = usb_crc5(n) and ERR if not.
C7_SofRoundTrip ==
    (ev.got = GOT_EOP /\ Len(ev.bytes) = 4 /\ ev.bytes[2] = PID_SOF) =>
        LET n == (ev.bytes[4] % 8) * 256 + ev.bytes[3]
            c == ev.bytes[4] \div 8
        IN  /\ ev.bytes = <<FS_SYNC, PID_SOF, n % 256, n \div 256 + 8 * c>>
            /\ ev.printed
            /\ Last(stdout) = Line("SOF", n, 0, c,
                                   IF c = usb_crc5(n) THEN "OK" ELSE "ERR",
                                   <<>>, ev.bytes)
            /\ state = IDLE

C7_Witness ==
    /\ ev.got = GOT_EOP
    /\ ev.bytes = <<FS_SYNC, PID_SOF, 1808 % 256, 1808 \div 256 + 8 * usb_crc5(1808)>>
    /\ Last(stdout).label = "SOF"
    /\ Last(stdout).a = 1808
    /\ Last(stdout).ok = "OK"

\* C8: usb_crc16 of a payload is the bit-at-a-time reflected CRC16 (register
\* 0xffff, taps 0xa001, complemented), 0 for the empty payload; a DATA0
\* packet is printed with the payload bytes[2..-2], the CRC16 field
\* bytes[-1] * 256 + bytes[-2], and OK exactly when the CRC16 of that payload
\* is that field.
C8_Crc16Table ==
    /\ usb_crc16(<<>>) = 0
    /\ (ev.printed /\ Last(stdout).label = "DATA0" /\ Len(ev.bytes) >= 4) =>
          LET b       == ev.bytes
              payload == SubSeq(b, 3, Len(b) - 2)
              l       == Last(stdout)
          IN  /\ usb_crc16(payload) = Crc16Ref(payload)
              /\ l.data0 = payload
              /\ l.crc = b[Len(b)] * 256 + b[Len(b) - 1]
              /\ (l.ok = "OK") = (Crc16Ref(payload) = l.crc)

C8_Witness ==
    /\ ev.printed
    /\ Last(stdout).label = "DATA0"
    /\ Last(stdout).data0 = <<128, 165, 1>>
    /\ Last(stdout).ok = "OK"

\* The byte that 8 bits make, the first bit being the least significant
PackLSB(b) ==
    b[1] + 2 * b[2] + 4 * b[3] + 8 * b[4] + 16 * b[5] + 32 * b[6]
         + 64 * b[7] + 128 * b[8]

\* The i-th byte of a sequence of bits, i >= 1
ByteOfBits(bits, i) == PackLSB([j \in 1..8 |-> bits[8 * (i - 1) + j]])

\* The SYNC pattern of the decoder's speed
SyncPattern == IF Truthy(full_speed) THEN FS_SYNC ELSE LS_SYNC

\* C11: the state is DETECT_SYNC only while fewer than 8 windows of the
\* attempt have been forwarded and no byte is in the buffer.  The iteration
\* that forwards the 8th window compares the byte these 8 bits make with
\* 0x2a at full speed and 0xd5 at low speed: if equal the state is RECEIVE,
\* the buffer holds that byte and the window is kept; if not, the state is
\* IDLE, buffer and window are gone and nothing was printed.
C11_SyncAcquisition ==
    /\ state = DETECT_SYNC =>
          /\ Len(ev.bits) < 8 /\ ev.k <= 8
          /\ sample # None /\ data # None /\ data[1].bytes_arr = <<>>
    /\ (ev.fwd /\ Len(ev.bits) = 8) =>
          /\ ev.sync = Some(ByteOfBits(ev.bits, 1))
          /\ ev.got = 0 /\ ~ev.printed /\ raised = ""
          /\ IF ByteOfBits(ev.bits, 1) = SyncPattern
             THEN /\ state = RECEIVE
                  /\ sample # None
                  /\ data # None
                  /\ data[1].bytes_arr = <<SyncPattern>>
                  /\ data[1].byte = dpdm_byte
             ELSE state = IDLE /\ sample = None /\ data = None
    /\ ev.sync # None => ev.fwd /\ Len(ev.bits) = 8

C11_Witness ==
    /\ ev.fwd /\ Len(ev.bits) = 8
    /\ ByteOfBits(ev.bits, 1) # SyncPattern
    /\ state = IDLE
    /\ data = None

\* The packets that carry a CRC field
CrcLabels == {"SOF", "SETUP", "IN", "DATA0"}

\* The verdict that the bit-at-a-time CRCs give a complete packet
RefVerdict(bytes) ==
    IF bytes[2] = PID_DATA0
    THEN Verdict(Crc16Ref(SubSeq(bytes, 3, Len(bytes) - 2))
                   = bytes[Len(bytes)] * 256 + bytes[Len(bytes) - 1])
    ELSE Verdict(Crc5Ref((bytes[4] % 8) * 256 + bytes[3]) = bytes[4] \div 8)

\* C12: the iteration that prints a SOF, SETUP, IN or DATA0 packet leaves
\* the same decoder state (IDLE, no window, no buffer, se0_cnt 0, no
\* exception) with the verdict ERR as with the verdict OK, and the ACK
\* packet that follows on the line is printed after either.
C12_CrcNotError ==
    /\ raised = ""
    /\ Len(stdout) <= 2
    /\ (ev.printed /\ Last(stdout).label \in CrcLabels) =>
          /\ Len(stdout) = 1
          /\ Last(stdout).ok = RefVerdict(ev.bytes)
          /\ <<state, sample, data, se0_cnt>> = <<IDLE, None, None, 0>>
    /\ rownum = NumRows(scn) =>
          /\ Len(stdout) = 2
          /\ stdout[1].label \in CrcLabels
          /\ stdout[1].ok \in {"OK", "ERR"}
          /\ stdout[2] = AckLine
          /\ <<state, sample, data, se0_cnt>> = <<IDLE, None, None, 0>>

C12_Witness ==
    /\ rownum = NumRows(scn)
    /\ Len(stdout) = 2
    /\ stdout[1].label = "DATA0"
    /\ stdout[1].ok = "ERR"
    /\ stdout[2] = AckLine

\* C13: while a window is open, se0_cnt is the number of SE0 windows of the
\* current attempt that were resolved last and in a row; it is 0 in the
\* iteration whose edge starts an attempt; and GOT_EOP is reached only by a
\* window that follows two SE0 windows of the same attempt.
C13_Se0Count ==
    /\ sample # None => se0_cnt = ev.se0_run
    /\ ev.edge => se0_cnt = 0
    /\ ev.got = GOT_EOP => ev.run_before >= 2

\* The states that an iteration of the loop can end in
RestingStates == {UNKNOWN, IDLE, DETECT_SYNC, RECEIVE}

\* C14: when the loop has processed a sample to the end, the state is
\* UNKNOWN, IDLE, DETECT_SYNC or RECEIVE (never GOT_SE1 or GOT_EOP), a
\* window exists exactly if the state is DETECT_SYNC or RECEIVE and so does
\* a buffer, and a state other than UNKNOWN is never followed by UNKNOWN.
C14_RestingStates ==
    /\ state = UNKNOWN /\ sample = None /\ data = None
    /\ [][ raised' = "" =>
             /\ state' \in RestingStates
             /\ (sample' # None) <=> (state' \in {DETECT_SYNC, RECEIVE})
             /\ (data' # None) <=> (state' \in {DETECT_SYNC, RECEIVE})
             /\ state # UNKNOWN => state' # UNKNOWN ]_vars

C14_Witness ==
    /\ ev.got = GOT_SE1
    /\ raised = ""
    /\ state = IDLE
    /\ sample = None /\ data = None

\* The timestamp of the sample that the loop processed last
LastTm == RowAt(scn, rownum).tm

\* C15: the k-th window of an attempt whose edge sample has the timestamp
\* t0 ends at t0 + k * period, whenever the samples arrive; an iteration
\* closes the open window exactly if the sample's timestamp is at or after
\* the end of that window, and the next window is the (k+1)-th of the same
\* schedule.
C15_FreeRunning ==
    /\ sample = None
    /\ [][ /\ sample' # None =>
                /\ period' # None
                /\ sample'[1].next_tm = ev'.t0 + ev'.k * period'[1]
           /\ ev'.edge => ev'.t0 = LastTm' /\ ev'.k = 1 /\ sample = None
           /\ IF sample # None
              THEN /\ ev'.closed <=> (LastTm' >= sample[1].next_tm)
                   /\ ev'.closed => ev'.win_end = sample[1].next_tm
                   /\ sample' # None =>
                         /\ ev'.t0 = ev.t0
                         /\ ev'.k = ev.k + (IF ev'.closed THEN 1 ELSE 0)
              ELSE ~ev'.closed /\ (sample' # None => ev'.edge) ]_vars

C15_Witness ==
    /\ ev.opened
    /\ ev.k >= 3
    /\ sample # None
    /\ sample[1].next_tm <= LastTm
    /\ sample[1].next_tm = ev.t0 + ev.k * period[1]

\* C16: a closed window resolves D+ to 1 exactly if more of the samples
\* counted into that window had D+ HIGH than LOW, and to 0 otherwise, a tie
\* included; the same for D-.  The sums are those of the samples of that
\* window alone: HIGH counts minus LOW counts.
C16_MajorityVote ==
    ev.closed =>
        /\ ev.win.n >= 1
        /\ ev.sum_dp = ev.win.hi_dp * HIGH + (ev.win.n - ev.win.hi_dp) * LOW
        /\ ev.sum_dm = ev.win.hi_dm * HIGH + (ev.win.n - ev.win.hi_dm) * LOW
        /\ ev.dp = (IF ev.win.hi_dp > ev.win.n - ev.win.hi_dp THEN 1 ELSE 0)
        /\ ev.dm = (IF ev.win.hi_dm > ev.win.n - ev.win.hi_dm THEN 1 ELSE 0)
        /\ ev.dp = (IF ev.sum_dp > 0 THEN 1 ELSE 0)
        /\ ev.dm = (IF ev.sum_dm > 0 THEN 1 ELSE 0)

C16_Witness ==
    /\ ev.closed
    /\ ev.win.n >= 2
    /\ 2 * ev.win.hi_dp = ev.win.n
    /\ ev.sum_dp = 0
    /\ ev.dp = 0
    /\ ev.win.hi_dm > ev.win.n - ev.win.hi_dm
    /\ ev.dm = 1

\* The bit that NRZI gives the i-th forwarded window of raw bits raws, the
\* 8 bits of the first byte being taken as they are
NrziBit(raws, i) ==
    IF i <= 8 THEN raws[i]
    ELSE IF raws[i] = raws[i - 1] THEN 1 ELSE 0

\* C17: the raw bit of a forwarded window is 1 exactly if it resolved to
\* dp > dm (0 for SE0).  The first 8 bits of an attempt are the raw bits;
\* every later bit is 1 exactly if the raw bit of its window equals the raw
\* bit of the window forwarded before it.  prev_bit is absent while fewer
\* than 8 windows have been forwarded and is the raw bit of the window
\* forwarded last from then on.
C17_NrziSeeding ==
    /\ ev.fwd =>
          /\ ev.raw_bit = (IF ev.dp > ev.dm THEN 1 ELSE 0)
          /\ Last(ev.raws) = ev.raw_bit
          /\ Last(ev.bits) = ev.bit
    /\ data # None =>
          /\ Len(ev.bits) = Len(ev.raws)
          /\ \A i \in 1..Len(ev.raws) : ev.bits[i] = NrziBit(ev.raws, i)
          /\ data[1].prev_bit =
                IF Len(ev.raws) < 8 THEN None ELSE Some(Last(ev.raws))

C17_Witness ==
    /\ ev.fwd
    /\ Len(ev.raws) >= 10
    /\ ev.dp = 0 /\ ev.dm = 0
    /\ ev.raws[Len(ev.raws) - 1] = 1
    /\ ev.bit = 0
    /\ data # None
    /\ data[1].prev_bit = Some(0)

\* The value of the first n bits of a byte under assembly, bits being
\* those that follow the complete bytes
PartialByte(bits, n) ==
    LET base == Len(bits) - n
        v[j \in 0..n] == IF j = 0 THEN 0 ELSE v[j - 1] + bits[base + j] * 2^(j - 1)
    IN  v[n]

\* C18: while a buffer exists, 8 times the number of its bytes plus the
\* number of bits of the byte under assembly is the number of windows
\* forwarded since the edge, and that number of bits is 0..7; the i-th byte
\* is made of the bits of the forwarded windows 8i-7..8i, the first being
\* the least significant, and is 0..255; the byte under assembly holds the
\* bits of the windows after those and is not in the buffer.
C18_ByteAssembly ==
    data # None =>
        LET d == data[1]
        IN  /\ d.byte.nr_bits \in 0..7
            /\ 8 * Len(d.bytes_arr) + d.byte.nr_bits = Len(ev.bits)
            /\ sample # None => Len(ev.bits) = ev.k - 1
            /\ \A i \in 1..Len(d.bytes_arr) :
                  /\ d.bytes_arr[i] \in 0..255
                  /\ d.bytes_arr[i] = ByteOfBits(ev.bits, i)
            /\ d.byte.b = PartialByte(ev.bits, d.byte.nr_bits)

C18_Witness ==
    /\ data # None
    /\ Len(data[1].bytes_arr) = 2
    /\ data[1].bytes_arr[2] = PID_ACK
    /\ data[1].byte.nr_bits = 2
    /\ data[1].byte.b = 3
    /\ Len(ev.bits) = 18

\* C19: for every bytes[2] and bytes[3] of a SETUP or IN packet, with
\* addrendp = bytes[2] + 256 * (bytes[3] mod 8): the printed address is
\* addrendp mod 128 (0..127), the printed endpoint is addrendp div 128
\* (0..15), the printed CRC5 is bytes[3] div 8, the verdict is OK exactly if
\* the CRC5 of addrendp is the printed CRC5, and the three printed fields
\* give back both bytes.
C19_TokenFields ==
    ev.got = GOT_EOP =>
        /\ raised = ""
        /\ ev.printed
        /\ LET l        == Last(stdout)
               b2       == ev.bytes[3]
               b3       == ev.bytes[4]
               addrendp == b2 + 256 * (b3 % 8)
           IN  /\ ev.bytes = FrameBytes(scn)
               /\ l.label = (IF ev.bytes[2] = PID_SETUP THEN "SETUP" ELSE "IN")
               /\ l.a \in 0..127 /\ l.b \in 0..15 /\ l.crc \in 0..31
               /\ addrendp \in 0..2047
               /\ l.a = addrendp % 128
               /\ l.b = addrendp \div 128
               /\ addrendp = l.a + 128 * l.b
               /\ l.crc = b3 \div 8
               /\ l.ok = Verdict(Crc5Ref(addrendp) = l.crc)
               /\ b2 = (l.a + 128 * l.b) % 256
               /\ b3 = (l.a + 128 * l.b) \div 256 + 8 * l.crc
               /\ l.bytes = ev.bytes

C19_Witness ==
    /\ ev.got = GOT_EOP
    /\ ev.printed
    /\ Last(stdout).label = "IN"
    /\ Last(stdout).a = 127
    /\ Last(stdout).b = 15
    /\ Last(stdout).ok = "OK"

\* The window with the levels dp_v, dm_v of one more sample
Added(w, dp_v, dm_v) == [w EXCEPT !.dp = @ + dp_v, !.dm = @ + dm_v]

\* C20: an iteration that finds a window open counts its sample into that
\* window and into no other: if the sample does not close the window, the
\* window has the sample more; if it closes the window, the window is
\* resolved with the sample counted, and the window that is opened has
\* counted nothing.  The sample of the edge is counted into the first
\* window.  An iteration closes at most one window, forwards at most one
\* bit and prints at most one line, whatever time has passed; without a
\* window it closes none.
C20_SampleAccounting ==
    [][ /\ Len(stdout') <= Len(stdout) + 1
        /\ sample # None =>
              /\ ev'.k <= ev.k + 1
              /\ Len(ev'.bits) <= Len(ev.bits) + 1
              /\ ev'.closed <=> (ev'.k = ev.k + 1 \/ sample' = None)
        /\ (sample = None /\ sample' = None) => ~ev'.closed /\ ~ev'.fwd
        /\ raised' = "" =>
              LET dp_v == prev_dp'[1]
                  dm_v == prev_dm'[1]
              IN  /\ (sample # None /\ ~ev'.closed) =>
                        /\ sample' = Some(Added(sample[1], dp_v, dm_v))
                        /\ ev'.acc = Counted(ev.acc, dp_v, dm_v)
                  /\ (sample # None /\ ev'.closed) =>
                        /\ ev'.sum_dp = sample[1].dp + dp_v
                        /\ ev'.sum_dm = sample[1].dm + dm_v
                        /\ ev'.win = Counted(ev.acc, dp_v, dm_v)
                        /\ sample' # None =>
                              /\ sample'[1].dp = 0 /\ sample'[1].dm = 0
                              /\ ev'.acc = NoSamples
                  /\ (sample = None /\ sample' # None) =>
                        /\ ev'.edge /\ ~ev'.closed
                        /\ sample'[1].dp = dp_v /\ sample'[1].dm = dm_v
                        /\ ev'.acc = Counted(NoSamples, dp_v, dm_v) ]_vars

C20_Witness ==
    /\ ev.closed /\ ev.fwd /\ ev.opened
    /\ ev.win.n = 1
    /\ sample # None
    /\ sample[1].dp = 0 /\ sample[1].dm = 0
    /\ ev.acc = NoSamples
    /\ LastTm >= sample[1].next_tm

====
